---- MODULE Spec2Model ----
(***************************************************************************)
(* Model of HandTrackingModule.HandDetector: a stateful adapter around an  *)
(* external hand-landmark engine.  The adapter's fields are the state;     *)
(* each public method is one action.  The engine (hands.process), the      *)
(* clock (time.time) and the caller's arguments are inputs.                *)
(*                                                                         *)
(* Numbers: normalized landmark coordinates are the rationals n/CoordDen,  *)
(* clock readings are whole ticks of 1/TicksPerSec second, confidences are *)
(* tenths.  Products and quotients are exact; Python's int() is modelled   *)
(* as truncation toward zero.                                              *)
(***************************************************************************)
EXTENDS Integers, Sequences, FiniteSets, TLC

\* ---- bounds of the model -------------------------------------------------
MaxSide == 2         \* frames are w x (MaxSide + 1 - w) for w in 1..MaxSide
CoordDen == 4        \* normalized coordinates are n/CoordDen
MaxHandNo == 3       \* hand_no ranges over -MaxHandNo..MaxHandNo
MaxReadings == 3     \* clock readings 1, 2, 4, ... (ticks): MaxReadings of them
TicksPerSec == 5     \* ticks per second

\* ---- program constants ---------------------------------------------------
NumLandmarks == 21   \* landmarks per hand (0:WRIST .. 20:PINKY TIP)
DefaultRadius == 5   \* draw_radius=5
SkeletonColor == 2   \* pixel value left by mp_draw.draw_landmarks
CircleColor == 3     \* pixel value left by cv2.circle, (255, 0, 255)
TextColor == 4       \* pixel value left by cv2.putText, (0, 255, 0)

VARIABLES
    mode, max_hands, detection_conf, tracking_conf,   \* configuration fields
    results,                                          \* self.results
    prev_time, current_time, fps,                     \* FPS state
    ctor_args,     \* history: the arguments given to __init__
    engine_out,    \* history: what hands.process returned last
    fps_called,    \* history: has update_fps been called
    ret            \* history: the last public call, its arguments and outcome
                   \* (lost: the engine had hands in the frame before and has
                   \* none in this one; after_lost: the call before was such
                   \* a find_hands)

vars == <<mode, max_hands, detection_conf, tracking_conf, results,
          prev_time, current_time, fps, ctor_args, engine_out, fps_called, ret>>

config == <<mode, max_hands, detection_conf, tracking_conf>>
fpsState == <<prev_time, current_time, fps>>

\* ---- Python semantics ----------------------------------------------------
Abs(n) == IF n < 0 THEN -n ELSE n

\* int(num / den): truncation toward zero (den # 0)
PyInt(num, den) ==
    IF (num >= 0) = (den > 0) THEN Abs(num) \div Abs(den)
                              ELSE -(Abs(num) \div Abs(den))

\* seq[i] for a Python list of length Len(seq): negative i counts from the
\* end, i outside -N..N-1 raises IndexError
PyIndex(seq, i) ==
    LET N == Len(seq) IN
    IF i >= 0 /\ i < N THEN [err |-> "none", item |-> seq[i + 1]]
    ELSE IF i < 0 /\ i >= -N THEN [err |-> "none", item |-> seq[N + i + 1]]
    ELSE [err |-> "IndexError"]

\* ---- images --------------------------------------------------------------
\* An image is a sequence of h rows of w pixels; pixel (px, py) of the code
\* (0-based, x first) is img[py + 1][px + 1].
Height(img) == Len(img)
Width(img) == Len(img[1])

\* the frames a caller captures: one per shape, not mirror-symmetric
Frame(w) ==
    [y \in 1..(MaxSide + 1 - w) |-> [x \in 1..w |-> IF x = 1 THEN 1 ELSE 0]]
Frames == {Frame(w) : w \in 1..MaxSide}

\* Flip done wrong: the last column is copied over the first, not swapped
FlipLossy(img) ==
    [y \in 1..Height(img) |->
        [x \in 1..Width(img) |->
            IF x = 1 THEN img[y][Width(img)] ELSE img[y][x]]]

\* cv2.flip(img, 1): mirror around the vertical axis
Flip(img) ==
    [y \in 1..Height(img) |->
        [x \in 1..Width(img) |-> img[y][Width(img) + 1 - x]]]

\* paint pixel (px, py) (0-based) if it lies in the image
Paint(img, px, py, color) ==
    [y \in 1..Height(img) |->
        [x \in 1..Width(img) |->
            IF x - 1 = px /\ y - 1 = py THEN color ELSE img[y][x]]]

\* ---- the engine's results -------------------------------------------------
\* The engine reports a hand as NumLandmarks landmarks [x, y, z]; x and y
\* are numerators over CoordDen.  Three hands are enumerated: hand 1 lies
\* inside [0, 1] and touches both ends, hand 2 leaves it on both sides (a
\* hand partly out of frame), hand 3 stays strictly inside.  A result lists
\* its hands by these numbers.
ShapeCoord(k, i, m) ==
    IF k = 1 THEN (i * m) % (CoordDen + 1)
    ELSE IF k = 2 THEN ((i * m + 1) % (CoordDen + 3)) - 1
    ELSE 1 + ((i * m) % (CoordDen - 1))

\* landmark i of hand k: landmark.x, landmark.y, landmark.z
LandmarkX(k, i) == ShapeCoord(k, i, 1)
LandmarkY(k, i) == ShapeCoord(k, i, 2)
LandmarkZ(k, i) == -(i % 3) - k

Label(k) == IF k = 2 THEN "Right" ELSE "Left"

NoResult == [present |-> FALSE, multi_hand_landmarks |-> <<>>, multi_handedness |-> <<>>]

\* the j-th hand of a result that starts with hand s: s, s+2, s+4, ... (mod 3)
NthHand(s, j) == ((s + 2 * j) % 3) + 1

\* what hands.process can return for an engine built with max_num_hands = mh:
\* no hands (both lists None, modelled as empty), n hands in 1..mh, or one
\* hand without handedness
EngineOutputs(mh) ==
    {[present |-> TRUE, multi_hand_landmarks |-> <<>>, multi_handedness |-> <<>>]}
    \cup
    {[present |-> TRUE,
      multi_hand_landmarks |-> [j \in 1..n |-> NthHand(s, j)],
      multi_handedness |-> [j \in 1..n |-> Label(NthHand(s, j))]]
        : n \in 1..mh, s \in 0..2}
    \cup
    {[present |-> TRUE, multi_hand_landmarks |-> <<1>>, multi_handedness |-> <<>>]}

\* the truth value of "self.results and self.results.multi_hand_landmarks"
HasHands(res) == res.present /\ Len(res.multi_hand_landmarks) > 0

\* PixelScale done wrong: one pixel too far
PixelScaleOffByOne(n, size) == PyInt(n * size, CoordDen) + 1

\* int(landmark.x * w), int(landmark.y * h)
PixelScale(n, size) == PyInt(n * size, CoordDen)

\* ---- construction ---------------------------------------------------------
\* __init__(mode, max_hands, detection_confidence, tracking_confidence):
\* the defaults (False, 2, 0.5, 0.5) and another argument list, confidences
\* in tenths
CtorArgs == { <<FALSE, 2, 5, 5>>, <<TRUE, 1, 15, -1>> }

Init ==
    /\ ctor_args \in CtorArgs
    /\ mode = ctor_args[1]
    /\ max_hands = ctor_args[2]
    /\ detection_conf = ctor_args[3]
    /\ tracking_conf = ctor_args[4]
    /\ results = NoResult
    /\ prev_time = 0
    /\ current_time = 0
    /\ fps = 0
    /\ engine_out = NoResult
    /\ fps_called = FALSE
    /\ ret = [op |-> "init"]

\* the images a caller can pass: a freshly captured frame, or the image the
\* previous call returned when that call was find_hands
Inputs == Frames \cup (IF ret.op = "find_hands" THEN {ret.value} ELSE {})

\* ---- find_hands -----------------------------------------------------------
Min(a, b) == IF a < b THEN a ELSE b

\* mp_draw.draw_landmarks touches pixel (px, py) for hand k: some landmark
\* with normalized coordinates in [0, 1] falls on it, clamped into the image
SkeletonHits(k, px, py, w, h) ==
    \E i \in 0..(NumLandmarks - 1) :
        /\ LandmarkX(k, i) >= 0 /\ LandmarkX(k, i) <= CoordDen
        /\ LandmarkY(k, i) >= 0 /\ LandmarkY(k, i) <= CoordDen
        /\ Min(PixelScale(LandmarkX(k, i), w), w - 1) = px
        /\ Min(PixelScale(LandmarkY(k, i), h), h - 1) = py

\* the image find_hands returns: a copy, mirrored if flip_type, with the
\* skeleton of every detected hand drawn if draw
FindHandsImage(img, draw, flip_type, res) ==
    LET img_output == IF flip_type THEN Flip(img) ELSE img IN
    IF HasHands(res) /\ draw
    THEN [y \in 1..Height(img) |->
            [x \in 1..Width(img) |->
                IF \E j \in DOMAIN res.multi_hand_landmarks :
                      SkeletonHits(res.multi_hand_landmarks[j], x - 1, y - 1,
                                   Width(img), Height(img))
                THEN SkeletonColor ELSE img_output[y][x]]]
    ELSE img_output

\* Store done wrong: a result without hands does not replace the old one
StoreKeepOnEmpty(old, out) == IF HasHands(out) THEN out ELSE old

\* Store done wrong: only the first result is kept
StoreFirstOnly(old, out) == IF old.present THEN old ELSE out

\* self.results after hands.process returned out
Store(old, out) == out

\* history: the image passed is the one the previous find_hands returned
Chained(img) == ret.op = "find_hands" /\ img = ret.value

\* find_hands(img, draw, flip_type); out is what hands.process returns
FindHands(img, draw, flip_type, out) ==
    /\ results' = Store(results, out)
    /\ engine_out' = out
    /\ ret' = [op |-> "find_hands", err |-> "none",
               in |-> img, img |-> img, draw |-> draw, flip_type |-> flip_type,
               value |-> FindHandsImage(img, draw, flip_type, results'),
               lost |-> Len(engine_out.multi_hand_landmarks) > 0
                            /\ Len(out.multi_hand_landmarks) = 0,
               chained |-> Chained(img),
               prev_in |-> IF Chained(img) THEN ret.in ELSE img,
               prev_draw |-> IF Chained(img) THEN ret.draw ELSE draw,
               prev_flip |-> IF Chained(img) THEN ret.flip_type ELSE flip_type]
    /\ UNCHANGED <<config, fpsState, ctor_args, fps_called>>

\* ---- find_positions -------------------------------------------------------
\* the list find_positions returns: per hand, per landmark,
\* <<id, px, py, z, hand_type>>
FindPositionsValue(res, img) ==
    IF ~HasHands(res) THEN <<>>
    ELSE [j \in 1..Len(res.multi_hand_landmarks) |->
            LET hand == res.multi_hand_landmarks[j]
                hand_type == IF Len(res.multi_handedness) > 0
                             THEN res.multi_handedness[j] ELSE "Right"
            IN  [n \in 1..NumLandmarks |->
                    <<n - 1,
                      PixelScale(LandmarkX(hand, n - 1), Width(img)),
                      PixelScale(LandmarkY(hand, n - 1), Height(img)),
                      LandmarkZ(hand, n - 1),
                      hand_type>>]]

\* FindPositions done wrong: the stored result is cleared once read
FindPositionsConsuming(img) ==
    /\ ret' = [op |-> "find_positions", err |-> "none",
               in |-> img, img |-> img,
               value |-> FindPositionsValue(results, img),
               after_lost |-> ret.op = "find_hands" /\ ret.lost,
               again |-> ret.op = "find_positions" /\ ret.in = img,
               prev_value |-> IF ret.op = "find_positions" THEN ret.value ELSE <<>>]
    /\ results' = NoResult
    /\ UNCHANGED <<config, fpsState, ctor_args, engine_out, fps_called>>

\* find_positions(img): reads self.results and img.shape, writes nothing
FindPositions(img) ==
    /\ ret' = [op |-> "find_positions", err |-> "none",
               in |-> img, img |-> img,
               value |-> FindPositionsValue(results, img),
               after_lost |-> ret.op = "find_hands" /\ ret.lost,
               again |-> ret.op = "find_positions" /\ ret.in = img,
               prev_value |-> IF ret.op = "find_positions" THEN ret.value ELSE <<>>]
    /\ UNCHANGED <<config, results, fpsState, ctor_args, engine_out, fps_called>>

\* ---- find_position ---------------------------------------------------------
\* InRange done wrong: hand_no = n passes
InRangeInclusive(hand_no, n) == hand_no <= n

\* the test "hand_no < len(self.results.multi_hand_landmarks)"
InRange(hand_no, n) == hand_no < n

\* cv2.circle(img, (cx, cy), radius, color, cv2.FILLED) fills pixel (px, py)
CircleHits(cx, cy, radius, px, py) ==
    (px - cx) * (px - cx) + (py - cy) * (py - cy) <= radius * radius

\* the outcome of find_position: the exception raised if any, the list
\* returned (per landmark <<id, px, py>>) and the caller's image afterwards
FindPositionOutcome(res, img, hand_no, draw, draw_radius) ==
    IF ~HasHands(res) THEN [err |-> "none", value |-> <<>>, img |-> img]
    ELSE IF ~InRange(hand_no, Len(res.multi_hand_landmarks))
    THEN [err |-> "none", value |-> <<>>, img |-> img]
    ELSE LET pick == PyIndex(res.multi_hand_landmarks, hand_no) IN
         IF pick.err # "none" THEN [err |-> pick.err, img |-> img]
         ELSE LET hand == pick.item
                  w == Width(img)
                  h == Height(img)
              IN  [err |-> "none",
                   value |-> [n \in 1..NumLandmarks |->
                                <<n - 1, PixelScale(LandmarkX(hand, n - 1), w),
                                         PixelScale(LandmarkY(hand, n - 1), h)>>],
                   img |-> IF draw
                           THEN [y \in 1..h |-> [x \in 1..w |->
                                   IF \E i \in 0..(NumLandmarks - 1) :
                                        CircleHits(PixelScale(LandmarkX(hand, i), w),
                                                   PixelScale(LandmarkY(hand, i), h),
                                                   draw_radius, x - 1, y - 1)
                                   THEN CircleColor ELSE img[y][x]]]
                           ELSE img]

\* find_position(img, hand_no, draw, draw_radius)
FindPosition(img, hand_no, draw, draw_radius) ==
    /\ ret' = [op |-> "find_position", in |-> img, hand_no |-> hand_no, draw |-> draw]
              @@ FindPositionOutcome(results, img, hand_no, draw, draw_radius)
    /\ UNCHANGED <<config, results, fpsState, ctor_args, engine_out, fps_called>>

\* ---- update_fps ------------------------------------------------------------
\* FpsRate done wrong: rounded to the nearest integer, not truncated
FpsRateNearest(d) == (2 * TicksPerSec + d) \div (2 * d)

\* int(1 / (current_time - prev_time)) for readings d ticks apart, d # 0
FpsRate(d) == PyInt(TicksPerSec, d)

\* update_fps(); t is the reading time.time() returns
UpdateFps(t) ==
    /\ current_time' = t
    /\ fps_called' = TRUE
    /\ IF prev_time > 0 /\ t - prev_time = 0
       THEN \* 1 / 0 raises before prev_time and fps are assigned
            /\ ret' = [op |-> "update_fps", err |-> "ZeroDivisionError",
                       first |-> ~fps_called, elapsed |-> t - prev_time]
            /\ UNCHANGED <<prev_time, fps>>
       ELSE /\ prev_time' = t
            /\ fps' = IF prev_time > 0 THEN FpsRate(t - prev_time) ELSE 0
            /\ ret' = [op |-> "update_fps", err |-> "none",
                       first |-> ~fps_called, elapsed |-> t - prev_time,
                       value |-> fps']
    /\ UNCHANGED <<config, results, ctor_args, engine_out>>

\* ---- display_fps -----------------------------------------------------------
\* position=(10, 30)
DefaultPosition == <<10, 30>>

\* cv2.putText(img, f"FPS: {self.fps}", position, ...): the label is drawn
\* into the caller's image from position; text is the number it shows
DisplayFps(img, position) ==
    /\ ret' = [op |-> "display_fps", err |-> "none", in |-> img,
               img |-> Paint(img, position[1], position[2], TextColor),
               value |-> Paint(img, position[1], position[2], TextColor),
               text |-> fps]
    /\ UNCHANGED <<config, results, fpsState, ctor_args, engine_out, fps_called>>

\* the readings time.time() can return: it does not run backwards between
\* two calls
ClockReadings == {t \in {2 ^ (i - 1) : i \in 1..MaxReadings} : t >= current_time}

\* every public call, each on a freshly captured frame
Next ==
    \/ \E img \in Frames, draw \in BOOLEAN, flip_type \in BOOLEAN,
          out \in EngineOutputs(max_hands) :
            FindHands(img, draw, flip_type, out)
    \/ \E img \in Frames : FindPositions(img)
    \/ \E img \in Frames, hand_no \in (-MaxHandNo)..MaxHandNo, draw \in BOOLEAN :
            FindPosition(img, hand_no, draw, DefaultRadius)
    \/ \E t \in ClockReadings : UpdateFps(t)
    \/ \E img \in Frames, position \in {<<0, 0>>, DefaultPosition} :
            DisplayFps(img, position)

Spec == Init /\ [][Next]_vars

\* the calls that take an image, each on a fresh frame or on the image the
\* previous find_hands returned (img = detector.find_hands(img), and on)
NextFeed ==
    \/ \E img \in Inputs, draw \in BOOLEAN, flip_type \in BOOLEAN,
          out \in EngineOutputs(max_hands) :
            FindHands(img, draw, flip_type, out)
    \/ \E img \in Inputs : FindPositions(img)
    \/ \E img \in Inputs, hand_no \in (-MaxHandNo)..MaxHandNo, draw \in BOOLEAN :
            FindPosition(img, hand_no, draw, DefaultRadius)
    \/ \E img \in Inputs, position \in {<<0, 0>>, DefaultPosition} :
            DisplayFps(img, position)

SpecFeed == Init /\ [][NextFeed]_vars

\* ---- the claims ------------------------------------------------------------
\* the number of hands in a result (0 when there is none)
HandCount(res) == Len(res.multi_hand_landmarks)

\* p is int(n/CoordDen * size): n * size / CoordDen truncated toward zero
IsTruncated(p, n, size) ==
    IF n * size >= 0
    THEN p * CoordDen <= n * size /\ n * size < (p + 1) * CoordDen
    ELSE (p - 1) * CoordDen < n * size /\ n * size <= p * CoordDen

\* every landmark of every hand of res has normalized x and y in [0, 1]
AllNormalized(res) ==
    \A j \in DOMAIN res.multi_hand_landmarks :
        \A i \in 0..(NumLandmarks - 1) :
            LET k == res.multi_hand_landmarks[j] IN
            /\ LandmarkX(k, i) >= 0 /\ LandmarkX(k, i) <= CoordDen
            /\ LandmarkY(k, i) >= 0 /\ LandmarkY(k, i) <= CoordDen

\* value is one record per hand of res, in order, each of NumLandmarks
\* tuples with ids 0..NumLandmarks-1 carrying that hand's depth
HandRecords(value, res) ==
    /\ Len(value) = HandCount(res)
    /\ \A j \in DOMAIN value :
        /\ Len(value[j]) = NumLandmarks
        /\ \A n \in DOMAIN value[j] :
            /\ value[j][n][1] = n - 1
            /\ value[j][n][4] = LandmarkZ(res.multi_hand_landmarks[j], n - 1)

\* C1: find_position with hand_no >= N (N the number of hands stored, 0 when
\* there is no result or no hands) returns an empty list and does not raise,
\* with or without drawing.
C1_HighIndexEmpty ==
    (ret.op = "find_position" /\ ret.hand_no >= HandCount(results))
        => (ret.err = "none" /\ ret.value = <<>>)

C1_Witness ==
    /\ ret.op = "find_position" /\ ret.draw
    /\ HandCount(results) >= 1 /\ ret.hand_no >= HandCount(results)
    /\ ret.err = "none" /\ ret.value = <<>>

\* C2: with N >= 1 hands stored, find_position with a negative hand_no
\* returns an empty list and does not raise.
C2_NegativeIndexEmpty ==
    (ret.op = "find_position" /\ HandCount(results) >= 1 /\ ret.hand_no < 0)
        => (ret.err = "none" /\ ret.value = <<>>)

\* C3 as claimed: for a result whose landmarks all have x and y in [0, 1],
\* find_positions returns one record per hand in engine order, each of 21
\* tuples with ids 0..20, with 0 <= px < w and 0 <= py < h.
C3_PixelsInsideImage ==
    (ret.op = "find_positions" /\ AllNormalized(results))
        => /\ HandRecords(ret.value, results)
           /\ \A j \in DOMAIN ret.value : \A n \in DOMAIN ret.value[j] :
                /\ 0 <= ret.value[j][n][2] /\ ret.value[j][n][2] < Width(ret.in)
                /\ 0 <= ret.value[j][n][3] /\ ret.value[j][n][3] < Height(ret.in)

\* C3 as amended: the same, with 0 <= px <= w and 0 <= py <= h, px = w
\* exactly for normalized x = 1 and py = h exactly for normalized y = 1.
C3_PixelsUpToEdge ==
    (ret.op = "find_positions" /\ AllNormalized(results))
        => /\ HandRecords(ret.value, results)
           /\ \A j \in DOMAIN ret.value : \A n \in DOMAIN ret.value[j] :
                LET k == results.multi_hand_landmarks[j]
                    px == ret.value[j][n][2]
                    py == ret.value[j][n][3]
                IN  /\ 0 <= px /\ px <= Width(ret.in)
                    /\ 0 <= py /\ py <= Height(ret.in)
                    /\ (px = Width(ret.in)) <=> (LandmarkX(k, n - 1) = CoordDen)
                    /\ (py = Height(ret.in)) <=> (LandmarkY(k, n - 1) = CoordDen)

C3_Witness ==
    /\ ret.op = "find_positions" /\ AllNormalized(results)
    /\ HandCount(results) = 2 /\ Len(ret.value) = 2
    /\ Width(ret.in) = 2
    /\ \E n \in 1..NumLandmarks : ret.value[1][n][2] = Width(ret.in)

\* C4: when the engine detects no hands, find_hands raises nothing and
\* returns the input (mirrored iff flip_type) with nothing drawn even with
\* draw set, and find_positions and find_position then return an empty list.
C4_NoHandsNoOverlay ==
    /\ (ret.op = "find_hands" /\ HandCount(engine_out) = 0)
        => /\ ret.err = "none"
           /\ Height(ret.value) = Height(ret.in)
           /\ Width(ret.value) = Width(ret.in)
           /\ \A y \in 1..Height(ret.in) : \A x \in 1..Width(ret.in) :
                ret.value[y][x] =
                    ret.in[y][IF ret.flip_type THEN Width(ret.in) + 1 - x ELSE x]
    /\ (ret.op \in {"find_positions", "find_position"}
            /\ engine_out.present /\ HandCount(engine_out) = 0)
        => (ret.err = "none" /\ ret.value = <<>>)

C4_Witness ==
    /\ ret.op = "find_hands" /\ HandCount(engine_out) = 0
    /\ ret.draw /\ ret.flip_type
    /\ Width(ret.in) >= 2 /\ ret.value # ret.in

\* C5: find_positions and find_position report hands of the result of the
\* most recent find_hands call only, and return an empty list when
\* find_hands was never called.
C5_LatestResultOnly ==
    /\ ret.op = "find_positions"
        => /\ HandRecords(ret.value, engine_out)
           /\ \A j \in DOMAIN ret.value : \A n \in DOMAIN ret.value[j] :
                LET k == engine_out.multi_hand_landmarks[j] IN
                /\ IsTruncated(ret.value[j][n][2], LandmarkX(k, n - 1), Width(ret.in))
                /\ IsTruncated(ret.value[j][n][3], LandmarkY(k, n - 1), Height(ret.in))
    /\ (ret.op = "find_position" /\ ret.err = "none")
        => \/ ret.value = <<>>
           \/ \E j \in DOMAIN engine_out.multi_hand_landmarks :
                /\ Len(ret.value) = NumLandmarks
                /\ \A n \in DOMAIN ret.value :
                    LET k == engine_out.multi_hand_landmarks[j] IN
                    /\ ret.value[n][1] = n - 1
                    /\ IsTruncated(ret.value[n][2], LandmarkX(k, n - 1), Width(ret.in))
                    /\ IsTruncated(ret.value[n][3], LandmarkY(k, n - 1), Height(ret.in))
    /\ (ret.op \in {"find_positions", "find_position"} /\ ~engine_out.present)
        => (ret.err = "none" /\ ret.value = <<>>)

C5_Witness ==
    /\ ret.op = "find_positions" /\ ret.after_lost
    /\ HandCount(engine_out) = 0 /\ ret.value = <<>>

\* C6: update_fps returns 0 and does not raise on the first call and on a
\* later call whose clock reading equals the previous one.
C6_NoElapsedGivesZero ==
    (ret.op = "update_fps" /\ (ret.first \/ ret.elapsed = 0))
        => (ret.err = "none" /\ ret.value = 0)

\* v is an integer nearest to num/den (den > 0)
IsNearest(v, num, den) == 2 * Abs(v * den - num) <= den

\* C7 as claimed: after the first call, with T > 0 elapsed, update_fps
\* returns 1/T rounded to the nearest integer and stores what it returns.
C7_NearestInteger ==
    (ret.op = "update_fps" /\ ~ret.first /\ ret.elapsed > 0)
        => /\ ret.err = "none"
           /\ IsNearest(ret.value, TicksPerSec, ret.elapsed)
           /\ fps = ret.value

\* C7 as amended: it returns 1/T truncated to an integer (the largest
\* integer not above 1/T), stores what it returns, and display_fps prints
\* the stored value.
C7_TruncatedInteger ==
    /\ (ret.op = "update_fps" /\ ~ret.first /\ ret.elapsed > 0)
        => /\ ret.err = "none"
           /\ ret.value * ret.elapsed <= TicksPerSec
           /\ TicksPerSec < (ret.value + 1) * ret.elapsed
           /\ fps = ret.value
    /\ ret.op = "display_fps" => ret.text = fps

C7_Witness ==
    /\ ret.op = "update_fps" /\ ~ret.first /\ ret.elapsed > 0
    /\ ret.err = "none"
    /\ ret.value * ret.elapsed < TicksPerSec
    /\ ~IsNearest(ret.value, TicksPerSec, ret.elapsed)

\* C8: feeding the output of find_hands(img, flip_type=True) back into
\* find_hands with flip_type=True, both with draw=False, returns img.
C8_DoubleFlip ==
    (ret.op = "find_hands" /\ ret.chained
        /\ ret.flip_type /\ ret.prev_flip /\ ~ret.draw /\ ~ret.prev_draw)
        => ret.value = ret.prev_in

C8_Witness ==
    /\ ret.op = "find_hands" /\ ret.chained
    /\ ret.flip_type /\ ret.prev_flip /\ ~ret.draw /\ ~ret.prev_draw
    /\ HandCount(results) >= 1
    /\ ret.in # ret.prev_in /\ ret.value = ret.prev_in

\* C9: find_positions leaves the stored result, the FPS state, the
\* configuration and the image passed in unchanged, and a second call in a
\* row with the same image returns the same value.
C9_PureRead ==
    /\ [](ret.op = "find_positions"
            => /\ ret.img = ret.in
               /\ ret.again => ret.value = ret.prev_value)
    /\ [][ret'.op = "find_positions"
            => UNCHANGED <<results, fpsState, config>>]_vars

C9_Witness ==
    /\ ret.op = "find_positions" /\ ret.again
    /\ Len(ret.value) >= 1 /\ ret.value = ret.prev_value

\* C10: the configuration equals the constructor's arguments and both
\* confidence thresholds lie in [0, 1] (0..10 tenths).
C10_ConfigFixedInRange ==
    /\ config = ctor_args
    /\ detection_conf >= 0 /\ detection_conf <= 10
    /\ tracking_conf >= 0 /\ tracking_conf <= 10
====
